---- MODULE Spec2Model ----
(***************************************************************************)
(* Model of the scroll-driven audio/visual page (App, Model, initAudio).   *)
(*                                                                         *)
(* The repository holds two versions of the component file:                *)
(*   src/src/App.tsx      (variant "App.tsx")                              *)
(*   src/unnamed/part_000 (variant "part_000")                             *)
(* They differ in the null guard of the timeline setup and in the stage-2  *)
(* visual distortion; the variant is fixed in Init and every operation is  *)
(* modelled for both.                                                      *)
(*                                                                         *)
(* Units: bpm is an integer; distortion and reverb wet are tenths;         *)
(* opacity and scale are hundredths; a colour is an <<r, g, b>> triple;    *)
(* the material speed is kept in thirtieths (speed = bpm / 30); frame      *)
(* deltas are milliseconds; timeline time is in steps, StepsPerStage steps *)
(* for each stage of duration 1.                                           *)
(***************************************************************************)
EXTENDS Integers, FiniteSets, Sequences, TLC

\* ------------------------------------------------------------ bounds
\* how many times the App component is mounted in one behaviour
MaxMounts == 2
\* timeline positions per stage (stage i spans (i-1)*S .. i*S)
StepsPerStage == 1

\* ------------------------------------------------- program constants
PulseScale == 130
SafeDeltaCap == 100
LerpRate == 8
InitBpm == 60
TransportStartBpm == 60
SpeedDivisor == 30

Variants == {"App.tsx", "part_000"}
Gens == 1..MaxMounts
Stages == 1..3
EndTime == 3 * StepsPerStage
\* frame inputs: delta in ms and the clock's elapsed time in seconds
Deltas == {100, 200}
Elapsed == {1}

White == <<255, 255, 255>>
Teal == <<78, 205, 196>>
Red == <<255, 107, 107>>

VARIABLES
    variant,        \* which version of the file runs
    mounted,        \* an App instance is mounted
    gen,            \* number of mounts so far; the current instance's id
    started,        \* App's `started` state (overlay hidden)
    beatSignalRef,  \* beatSignalRef.current of each App instance
    groupRef, materialRef, wireframeRef,  \* TRUE iff .current is non-null
    currentScale,   \* currentScaleRef.current
    groupScale,     \* groupRef.current.scale
    wireRot,        \* wireframeRef.current.rotation, [x, y] in tenths
    visualParams, audioParams,
    material,       \* the MeshDistortMaterial's color/opacity/distort/speed
    tl,             \* the gsap timeline of the Model instance
    nullDeref,      \* a handler of the mounted Model read a null ref's .current
    calls,          \* where each App instance's initAudio call is suspended
    guardReturned,  \* the mounted instance's initAudio call returned at line 25
    loops,          \* the Tone.Loop each call created
    fx,             \* amounts of the nodes audioSystem.distortion/.reverb hold
    audioSystem,    \* the global singleton
    transport       \* Tone.Transport

vars == <<variant, mounted, gen, started, beatSignalRef, groupRef, materialRef,
          wireframeRef, currentScale, groupScale, wireRot, visualParams,
          audioParams, material, tl, nullDeref, calls, guardReturned, loops,
          fx, audioSystem, transport>>

modelVars == <<groupRef, materialRef, wireframeRef, currentScale, groupScale,
               wireRot, visualParams, audioParams, material, tl>>
audioVars == <<calls, guardReturned, loops, fx, audioSystem, transport>>

\* ------------------------------------------------ initial values
InitVisual == [color |-> White, distort |-> 3, opacity |-> 50]
InitAudio == [bpm |-> InitBpm, distort |-> 0, reverbWet |-> 3]
InitMaterial == [color |-> White, opacity |-> 50, distort |-> 3,
                 speed |-> 2 * SpeedDivisor]
NoTimeline == [status |-> "none", tweens |-> 0, time |-> 0, inited |-> {},
               fromA |-> [i \in Stages |-> InitAudio],
               fromV |-> [i \in Stages |-> InitVisual]]
NoLoop == [state |-> "none", scheduled |-> FALSE]
NoFx == [distortion |-> 0, wet |-> 0]

\* ------------------------------------------------ the gsap timeline
\* Stage targets of the audioParams tweens
AudioTo(i) ==
    CASE i = 1 -> [bpm |-> 100]
      [] i = 2 -> [bpm |-> 180, distort |-> 8]
      [] i = 3 -> [bpm |-> 30, distort |-> 0, reverbWet |-> 10]

\* Stage targets of the visualParams tweens (stage 2 distort differs by file)
VisualTo(i) ==
    CASE i = 1 -> [color |-> Teal, opacity |-> 80, distort |-> 8]
      [] i = 2 -> [distort |-> IF variant = "App.tsx" THEN 15 ELSE 10,
                   color |-> Red, opacity |-> 95]
      [] i = 3 -> [distort |-> 0, color |-> White, opacity |-> 30]

\* the `from` values of the stage-1 fromTo
VisualFrom1 == [color |-> White, opacity |-> 50, distort |-> 3]

\* gsap's default ease power1.out at local step k: 1 - (1 - k/S)^2, times S^2
EaseNum(k) == StepsPerStage * StepsPerStage
              - (StepsPerStage - k) * (StepsPerStage - k)

Interp(a, b, k) == a + ((b - a) * EaseNum(k)) \div (StepsPerStage * StepsPerStage)

InterpVal(f, a, b, k) ==
    IF f = "color" THEN [c \in 1..3 |-> Interp(a[c], b[c], k)]
    ELSE Interp(a, b, k)

\* a tween writes only the properties it names
TweenWrite(cur, from, to, k) ==
    [f \in DOMAIN cur |->
        IF f \in DOMAIN to THEN InterpVal(f, from[f], to[f], k) ELSE cur[f]]

Clamp(x, lo, hi) == IF x < lo THEN lo ELSE IF x > hi THEN hi ELSE x

\* Render the tweens of stage i with the playhead at t.  A `to` tween reads
\* its start values from the target the first time it renders.
\* st = [ap, vp, inited, fromA, fromV]
RenderStage(st, i, t) ==
    LET k  == Clamp(t - (i - 1) * StepsPerStage, 0, StepsPerStage)
        fa == IF i \in st.inited THEN st.fromA[i] ELSE st.ap
        fv == IF i \in st.inited THEN st.fromV[i]
              ELSE IF i = 1 THEN VisualFrom1 ELSE st.vp
    IN  [ap     |-> TweenWrite(st.ap, fa, AudioTo(i), k),
         vp     |-> TweenWrite(st.vp, fv, VisualTo(i), k),
         inited |-> st.inited \cup {i},
         fromA  |-> [st.fromA EXCEPT ![i] = fa],
         fromV  |-> [st.fromV EXCEPT ![i] = fv]]

\* playhead moving forward: children in order, those that have started
RenderForward(st, t) ==
    LET s1 == IF t >= 0 THEN RenderStage(st, 1, t) ELSE st
        s2 == IF t >= StepsPerStage THEN RenderStage(s1, 2, t) ELSE s1
        s3 == IF t >= 2 * StepsPerStage THEN RenderStage(s2, 3, t) ELSE s2
    IN  s3

\* faulty variant: the backward pass visiting the children in forward order
RenderBackwardInOrder(st, t) ==
    LET s1 == IF 1 \in st.inited /\ t <= StepsPerStage
              THEN RenderStage(st, 1, t) ELSE st
        s2 == IF 2 \in s1.inited /\ t <= 2 * StepsPerStage
              THEN RenderStage(s1, 2, t) ELSE s1
        s3 == IF 3 \in s2.inited /\ t <= 3 * StepsPerStage
              THEN RenderStage(s2, 3, t) ELSE s2
    IN  s3

\* playhead moving backward: children in reverse order, those not yet ended;
\* a tween that never rendered is left alone
RenderBackward(st, t) ==
    LET s3 == IF 3 \in st.inited /\ t <= 3 * StepsPerStage
              THEN RenderStage(st, 3, t) ELSE st
        s2 == IF 2 \in s3.inited /\ t <= 2 * StepsPerStage
              THEN RenderStage(s3, 2, t) ELSE s3
        s1 == IF 1 \in s2.inited /\ t <= StepsPerStage
              THEN RenderStage(s2, 1, t) ELSE s2
    IN  s1

RenderTimeline(st, from, t) ==
    IF t >= from THEN RenderForward(st, t) ELSE RenderBackward(st, t)

\* useGSAP: the guard, then the twelve tweens.  part_000 checks groupRef only
\* and reads wireframeRef.current.scale after six tweens are built.
SetupGuardPasses(g, w) ==
    IF variant = "App.tsx" THEN g /\ w ELSE g

SetupTimeline(g, w) ==
    IF ~SetupGuardPasses(g, w) THEN NoTimeline
    ELSE IF ~w THEN [NoTimeline EXCEPT !.status = "threw", !.tweens = 6]
    ELSE [NoTimeline EXCEPT !.status = "built", !.tweens = 12,
                            !.fromV[1] = VisualFrom1]

SetupDerefsNull(g, w) == SetupGuardPasses(g, w) /\ (~g \/ ~w)


\* ------------------------------------------------ the frame callback
Min(a, b) == IF a < b THEN a ELSE b

\* THREE.MathUtils.lerp(x, 1, safeDelta * 8), hundredths, delta in ms
LerpToOne(x, delta) ==
    x + ((100 - x) * Min(delta, SafeDeltaCap) * LerpRate) \div 1000

\* the beat pulse: reset to 1.3 when the signal is set, then ease
FrameScale(signal, scale, delta) ==
    LerpToOne(IF signal THEN PulseScale ELSE scale, delta)

\* material.speed = bpm / 30, in thirtieths
SpeedOf(bpm) == (bpm * 30) \div SpeedDivisor

FrameMaterial(mat, vp, ap) ==
    [color |-> vp.color, opacity |-> vp.opacity, distort |-> vp.distort,
     speed |-> SpeedOf(ap.bpm)]

\* faulty variant: the bpm sync without the isReady check
FrameTransportUnguarded(tr, sys, ap) == [tr EXCEPT !.bpm = ap.bpm]

\* faulty variant: the sync block without the reverb line
FrameFxNoWet(nodes, sys, ap) ==
    IF ~sys.isReady THEN nodes
    ELSE [nodes EXCEPT
            !.distortion = IF sys.distortion # 0 THEN ap.distort ELSE @]

\* the audio sync block, taken only when audioSystem.isReady
FrameTransport(tr, sys, ap) ==
    IF sys.isReady THEN [tr EXCEPT !.bpm = ap.bpm] ELSE tr

FrameFx(nodes, sys, ap) ==
    IF ~sys.isReady THEN nodes
    ELSE [nodes EXCEPT
            !.distortion = IF sys.distortion # 0 THEN ap.distort ELSE @,
            !.wet = IF sys.reverb # 0 THEN ap.reverbWet ELSE @]

\* the refs the callback reads .current of, past its guards
FrameDerefsNull(g, m, w) ==
    g /\ (~g \/ (m /\ ~m) \/ (w /\ ~w))

Frame(delta, elapsed) ==
    /\ mounted
    /\ tl.status # "threw"
    /\ IF ~groupRef
       THEN UNCHANGED <<beatSignalRef, currentScale, groupScale, material,
                        wireRot, transport, fx>>
       ELSE /\ beatSignalRef' = [beatSignalRef EXCEPT ![gen] = FALSE]
            /\ currentScale' = FrameScale(beatSignalRef[gen], currentScale, delta)
            /\ groupScale' = currentScale'
            /\ material' = IF materialRef
                           THEN FrameMaterial(material, visualParams, audioParams)
                           ELSE material
            /\ wireRot' = IF wireframeRef
                          THEN [x |-> elapsed, y |-> -elapsed]
                          ELSE wireRot
            /\ transport' = FrameTransport(transport, audioSystem, audioParams)
            /\ fx' = FrameFx(fx, audioSystem, audioParams)
    /\ nullDeref' = (nullDeref
                     \/ FrameDerefsNull(groupRef, materialRef, wireframeRef))
    /\ UNCHANGED <<variant, mounted, gen, started, groupRef, materialRef,
                   wireframeRef, visualParams, audioParams, tl,
                   calls, guardReturned, loops, audioSystem>>

\* ------------------------------------------------ scrolling
\* the scrubbed playhead is rendered at a new time t
ScrollScrub(t) ==
    /\ mounted
    /\ tl.status = "built"
    /\ t # tl.time
    /\ LET st == [ap |-> audioParams, vp |-> visualParams,
                  inited |-> tl.inited, fromA |-> tl.fromA, fromV |-> tl.fromV]
           r  == RenderTimeline(st, tl.time, t)
       IN  /\ audioParams' = r.ap
           /\ visualParams' = r.vp
           /\ tl' = [tl EXCEPT !.time = t, !.inited = r.inited,
                               !.fromA = r.fromA, !.fromV = r.fromV]
    /\ UNCHANGED <<variant, mounted, gen, started, beatSignalRef, groupRef,
                   materialRef, wireframeRef, currentScale, groupScale, wireRot,
                   material, nullDeref, calls, guardReturned, loops, fx,
                   audioSystem, transport>>

\* ------------------------------------------------ mount and unmount
\* App and Model are rendered and committed; g, m, w say which scene nodes
\* the commit attached to groupRef, materialRef and wireframeRef.  The
\* timeline setup (a layout effect) runs in the same step.
Mount(g, m, w) ==
    /\ ~mounted
    /\ gen < MaxMounts
    /\ mounted' = TRUE
    /\ gen' = gen + 1
    /\ started' = FALSE
    /\ beatSignalRef' = [beatSignalRef EXCEPT ![gen + 1] = FALSE]
    /\ groupRef' = g
    /\ materialRef' = m
    /\ wireframeRef' = w
    /\ currentScale' = 100
    /\ groupScale' = 100
    /\ wireRot' = [x |-> 0, y |-> 0]
    /\ visualParams' = InitVisual
    /\ audioParams' = InitAudio
    /\ material' = InitMaterial
    /\ tl' = SetupTimeline(g, w)
    /\ nullDeref' = SetupDerefsNull(g, w)
    /\ UNCHANGED <<variant, audioVars>>

\* the cleanup of App's effect
CleanupTransport(tr) == [tr EXCEPT !.state = "stopped"]

CleanupLoops(ls, sys) ==
    [c \in DOMAIN ls |->
        IF sys.loop = c THEN [state |-> "disposed", scheduled |-> FALSE]
        ELSE [ls[c] EXCEPT !.scheduled = FALSE]]

CleanupSystem(sys) == [sys EXCEPT !.isReady = FALSE]

\* The unmounted App's beatSignalRef object stays in the state only while a
\* suspended initAudio call or an undisposed Loop still holds it.
ReachableRefs(refs, cs, ls) ==
    [c \in DOMAIN refs |->
        IF cs[c] \in {"awaitStart", "awaitGenerate"} \/ ls[c].state = "started"
        THEN refs[c] ELSE FALSE]

Unmount ==
    /\ mounted
    /\ mounted' = FALSE
    /\ started' = FALSE
    /\ transport' = CleanupTransport(transport)
    /\ loops' = CleanupLoops(loops, audioSystem)
    /\ audioSystem' = CleanupSystem(audioSystem)
    /\ groupRef' = FALSE
    /\ materialRef' = FALSE
    /\ wireframeRef' = FALSE
    /\ currentScale' = 100
    /\ groupScale' = 100
    /\ wireRot' = [x |-> 0, y |-> 0]
    /\ visualParams' = InitVisual
    /\ audioParams' = InitAudio
    /\ material' = InitMaterial
    /\ tl' = NoTimeline
    /\ nullDeref' = FALSE
    /\ beatSignalRef' = ReachableRefs(beatSignalRef, calls, loops')
    /\ guardReturned' = FALSE
    /\ UNCHANGED <<variant, gen, calls, fx>>

\* ------------------------------------------------ the click and initAudio
\* the isReady guard of initAudio: return, or go on to await Tone.start()
InitAudioEntry(sys) == IF sys.isReady THEN "idle" ELSE "awaitStart"

HandleStart ==
    /\ mounted
    /\ ~started
    /\ tl.status # "threw"
    /\ calls' = [calls EXCEPT ![gen] = InitAudioEntry(audioSystem)]
    /\ guardReturned' = (InitAudioEntry(audioSystem) = "idle")
    /\ started' = TRUE
    /\ UNCHANGED <<variant, mounted, gen, beatSignalRef, modelVars, nullDeref,
                   loops, fx, audioSystem, transport>>

\* Tone.start() resolved: compressor and reverb are built (locals of the
\* call), then reverb.generate() is awaited
ToneStartResolve(c) ==
    /\ calls[c] = "awaitStart"
    /\ calls' = [calls EXCEPT ![c] = "awaitGenerate"]
    /\ UNCHANGED <<variant, mounted, gen, started, beatSignalRef, modelVars,
                   nullDeref, guardReturned, loops, fx, audioSystem,
                   transport>>

\* the new Distortion(0) and the Reverb({wet: 0.3}) that audioSystem now holds
InitFx == [distortion |-> 0, wet |-> 3]

InitTransport(tr) == [state |-> "started", bpm |-> TransportStartBpm]

\* faulty variant: the references saved, the ready flag forgotten
InitSystemNotReady(sys, c) ==
    [heart |-> c, blood |-> c, distortion |-> c, reverb |-> c, loop |-> c,
     isReady |-> sys.isReady]

InitSystem(sys, c) ==
    [heart |-> c, blood |-> c, distortion |-> c, reverb |-> c, loop |-> c,
     isReady |-> TRUE]

\* reverb.generate() resolved: the rest of initAudio runs to its end
GenerateResolve(c) ==
    /\ calls[c] = "awaitGenerate"
    /\ calls' = [calls EXCEPT ![c] = "idle"]
    /\ loops' = [loops EXCEPT ![c] = [state |-> "started", scheduled |-> TRUE]]
    /\ transport' = InitTransport(transport)
    /\ audioSystem' = InitSystem(audioSystem, c)
    /\ fx' = InitFx
    /\ UNCHANGED <<variant, mounted, gen, started, beatSignalRef, modelVars,
                   nullDeref, guardReturned>>

\* the Loop callback, run by the transport every quarter note
LoopFires(l) ==
    /\ transport.state = "started"
    /\ loops[l].state = "started"
    /\ loops[l].scheduled

LoopTick(l) ==
    /\ LoopFires(l)
    /\ beatSignalRef' = [beatSignalRef EXCEPT ![l] = TRUE]
    /\ UNCHANGED <<variant, mounted, gen, started, modelVars, nullDeref,
                   audioVars>>

\* ------------------------------------------------ specification
Init ==
    /\ variant \in Variants
    /\ mounted = FALSE
    /\ gen = 0
    /\ started = FALSE
    /\ beatSignalRef = [c \in Gens |-> FALSE]
    /\ groupRef = FALSE
    /\ materialRef = FALSE
    /\ wireframeRef = FALSE
    /\ currentScale = 100
    /\ groupScale = 100
    /\ wireRot = [x |-> 0, y |-> 0]
    /\ visualParams = InitVisual
    /\ audioParams = InitAudio
    /\ material = InitMaterial
    /\ tl = NoTimeline
    /\ nullDeref = FALSE
    /\ calls = [c \in Gens |-> "idle"]
    /\ guardReturned = FALSE
    /\ loops = [c \in Gens |-> NoLoop]
    /\ fx = NoFx
    /\ audioSystem = [heart |-> 0, blood |-> 0, distortion |-> 0, reverb |-> 0,
                      loop |-> 0, isReady |-> FALSE]
    /\ transport = [state |-> "stopped", bpm |-> 120]

FrameStep == \E d \in Deltas, e \in Elapsed : Frame(d, e)
ScrollStep == \E t \in 0..EndTime : ScrollScrub(t)
MountStep == \E g, m, w \in BOOLEAN : Mount(g, m, w)
StartResolveStep == \E c \in Gens : ToneStartResolve(c)
GenerateResolveStep == \E c \in Gens : GenerateResolve(c)
LoopStep == \E l \in Gens : LoopTick(l)

Next ==
    \/ MountStep
    \/ Unmount
    \/ HandleStart
    \/ StartResolveStep
    \/ GenerateResolveStep
    \/ LoopStep
    \/ FrameStep
    \/ ScrollStep

Spec == Init /\ [][Next]_vars

\* the render loop runs every animation frame, the transport keeps ticking,
\* and the two awaited promises resolve
FairSpec ==
    /\ Spec
    /\ WF_vars(FrameStep)
    /\ \A c \in Gens : WF_vars(ToneStartResolve(c))
    /\ \A c \in Gens : WF_vars(GenerateResolve(c))


\* ================================================== claims
Quiet ==
    /\ transport.state = "stopped"
    /\ \A l \in Gens : loops[l].state # "started"
    /\ ~audioSystem.isReady

AudioOn ==
    /\ audioSystem.isReady
    /\ audioSystem.loop \in Gens
    /\ LoopFires(audioSystem.loop)
    /\ transport.bpm \in {60, audioParams.bpm}

\* C1: whenever the playhead of a built timeline rests on a stage boundary
\* (progress 0, 1/3, 2/3, 1), whatever the scroll history, audioParams is
\* (60, 0, 0.3), (100, 0, 0.3), (180, 0.8, 0.3), (30, 0, 1) and
\* visualParams.color is #ffffff, #4ecdc4, #ff6b6b, #ffffff.
TimelineEndpoints ==
    tl.status = "built" =>
      /\ tl.time = 0 =>
           /\ audioParams = [bpm |-> 60, distort |-> 0, reverbWet |-> 3]
           /\ visualParams.color = <<255, 255, 255>>
      /\ tl.time = StepsPerStage =>
           /\ audioParams = [bpm |-> 100, distort |-> 0, reverbWet |-> 3]
           /\ visualParams.color = <<78, 205, 196>>
      /\ tl.time = 2 * StepsPerStage =>
           /\ audioParams = [bpm |-> 180, distort |-> 8, reverbWet |-> 3]
           /\ visualParams.color = <<255, 107, 107>>
      /\ tl.time = 3 * StepsPerStage =>
           /\ audioParams = [bpm |-> 30, distort |-> 0, reverbWet |-> 10]
           /\ visualParams.color = <<255, 255, 255>>

\* the playhead is back at 1/3 after it had entered the last stage
TimelineEndpointsWitness ==
    /\ tl.status = "built"
    /\ tl.time = StepsPerStage
    /\ tl.inited = {1, 2, 3}
    /\ audioParams.bpm = 100
    /\ visualParams.color = Teal

\* C2: while handleStart has not been called since the current mount, the
\* transport is not running, no heartbeat Loop is started and
\* audioSystem.isReady is false.
OnlyClickStartsAudio ==
    (mounted /\ ~started) => Quiet

\* C3: after handleStart, while the component stays mounted and the two
\* awaited promises resolve, the heartbeat Loop gets started on a running
\* transport at 60 bpm or audioParams.bpm with audioSystem.isReady true.
ClickStartsAudio ==
    (mounted /\ started) ~> (~mounted \/ AudioOn)

\* the click's own initAudio call ran to its end and audio is on
ClickStartsAudioWitness ==
    /\ mounted
    /\ started
    /\ calls[gen] = "idle"
    /\ audioSystem.loop = gen
    /\ AudioOn

\* C4: right after a frame callback that runs with the group and the
\* material mounted, material color, opacity and distort equal those of
\* visualParams and, if audioSystem.isReady held in that frame, Transport
\* bpm, the distortion amount and the reverb wet level equal audioParams.
FrameCopiesParams ==
    [][(FrameStep /\ groupRef /\ materialRef) =>
         /\ material'.color = visualParams'.color
         /\ material'.opacity = visualParams'.opacity
         /\ material'.distort = visualParams'.distort
         /\ audioSystem.isReady =>
              /\ transport'.bpm = audioParams'.bpm
              /\ audioSystem.distortion # 0
              /\ audioSystem.reverb # 0
              /\ fx'.distortion = audioParams'.distort
              /\ fx'.wet = audioParams'.reverbWet]_vars

\* a frame has copied the end-of-timeline values onto material and audio
FrameCopiesParamsWitness ==
    /\ mounted /\ groupRef /\ materialRef
    /\ audioSystem.isReady
    /\ tl.time = 3 * StepsPerStage
    /\ material.color = White /\ material.opacity = 30 /\ material.distort = 0
    /\ transport.bpm = 30
    /\ fx.wet = 10

\* C5: from the App cleanup until the next call of handleStart the
\* transport is stopped, no started heartbeat Loop exists and
\* audioSystem.isReady is false, also when an initAudio call was still
\* awaiting at the unmount.
CleanupRan == gen >= 2 \/ (gen >= 1 /\ ~mounted)

CleanupComplete ==
    (CleanupRan /\ ~started) => Quiet

\* C6: in mount, click, unmount, mount, click the initAudio call of the
\* second click does not return at the isReady guard.
SecondClickInitialises ==
    (gen >= 2 /\ mounted /\ started) => ~guardReturned

SingleHeartbeatLoop ==
    Cardinality({l \in Gens : loops[l].state = "started"
                              /\ loops[l].scheduled}) <= 1

\* C9: the frame callback that runs with the group mounted consumes the
\* beat: after it, no beat signal raised by a firing heartbeat Loop is still
\* set (every beat is followed by a pulse of the mesh).
BeatFollowedByPulse ==
    [][(FrameStep /\ groupRef) =>
         \A l \in Gens :
            (transport'.state = "started" /\ loops'[l].state = "started"
             /\ loops'[l].scheduled) => ~beatSignalRef'[l]]_vars

\* C10: after every frame with the material mounted material.speed is
\* audioParams.bpm / 30 whether or not audioSystem.isReady holds, and a
\* frame that runs while isReady is false leaves Transport bpm, the
\* distortion amount and the reverb wet level unchanged.  (material.speed
\* is kept in thirtieths, so bpm / 30 reads as bpm.)
SpeedFollowsBpm ==
    [][(FrameStep /\ materialRef) =>
         /\ material'.speed = audioParams'.bpm
         /\ ~audioSystem.isReady => (transport' = transport /\ fx' = fx)]_vars

\* a frame ran at the PANIC boundary while audio was silent
SpeedFollowsBpmWitness ==
    /\ mounted /\ groupRef /\ materialRef
    /\ ~audioSystem.isReady
    /\ audioParams.bpm = 180
    /\ material.speed = 180
    /\ transport.bpm # 180


====
